---- MODULE Spec2Model ----
(***************************************************************************)
(* string-alloc: String<A>, a Vec<u8, A> that is read as UTF-8 text.       *)
(* The model keeps the byte vector itself (values 0..255) and its          *)
(* capacity; codepoints are Unicode scalar values, encoded and decoded     *)
(* with the bit arithmetic of UTF-8.                                       *)
(***************************************************************************)
EXTENDS Integers, Sequences, FiniteSets, TLC

VARIABLES vec, cap, input, last

vars == <<vec, cap, input, last>>

(***************************************************************************)
(* Bounds of the model.                                                    *)
(***************************************************************************)
\* longest content, in codepoints, an operation may produce
MaxChars == 3
\* longest text, in codepoints, handed to push_str
MaxPush == 2
\* largest `additional` / `cap` argument of reserve, reserve_exact, with_capacity_in
MaxAdditional == 2
\* longest raw byte vector handed to the byte-vector constructors
MaxBytes == 4

\* codepoints used as inputs: 'a' (1 byte), U+00E9 (2), U+4E2D (3), U+1F980 (4)
Alphabet == {97, 233, 20013, 129408}

\* bytes used in raw byte vectors: 'h', 'i', 0xFF, 0xC3 and 0xC0 (2-byte
\* leads, 0xC0 overlong), 0xE0 and 0xED (3-byte leads), 0xF0 and 0xF4 (4-byte
\* leads), 0xA9 and 0x90 (continuation bytes)
ByteAlphabet == {104, 105, 255, 195, 192, 224, 237, 240, 244, 169, 144}

NoChar == -1

RECURSIVE SeqsUpTo(_, _)
SeqsUpTo(S, n) ==
    IF n = 0 THEN {<<>>}
    ELSE LET shorter == SeqsUpTo(S, n - 1)
         IN shorter \cup {Append(s, x) : s \in {t \in shorter : Len(t) = n - 1}, x \in S}

(***************************************************************************)
(* UTF-8 primitives of core::char and core::str used by the crate.         *)
(***************************************************************************)
\* byte at 1-based position i; a read past the end yields 0 (reached only
\* when the vector is not UTF-8, where the unchecked deref has no defined result)
At(b, i) == IF i >= 1 /\ i <= Len(b) THEN b[i] ELSE 0

len_utf8(ch) ==
    IF ch < 128 THEN 1 ELSE IF ch < 2048 THEN 2 ELSE IF ch < 65536 THEN 3 ELSE 4

encode_utf8(ch) ==
    IF ch < 128 THEN <<ch>>
    ELSE IF ch < 2048 THEN <<192 + (ch \div 64), 128 + (ch % 64)>>
    ELSE IF ch < 65536
         THEN <<224 + (ch \div 4096), 128 + ((ch \div 64) % 64), 128 + (ch % 64)>>
    ELSE <<240 + (ch \div 262144), 128 + ((ch \div 4096) % 64),
           128 + ((ch \div 64) % 64), 128 + (ch % 64)>>

utf8_is_cont_byte(x) == x >= 128 /\ x < 192

\* forward decode of the codepoint starting at 1-based position i
next_code_point(b, i) ==
    LET x == At(b, i)
        init == x % 32
        y == At(b, i + 1)
        z == At(b, i + 2)
        w == At(b, i + 3)
        y_z == (y % 64) * 64 + (z % 64)
    IN IF x < 128 THEN [ch |-> x, width |-> 1]
       ELSE IF x < 224 THEN [ch |-> init * 64 + (y % 64), width |-> 2]
       ELSE IF x < 240 THEN [ch |-> init * 4096 + y_z, width |-> 3]
       ELSE [ch |-> (init % 8) * 262144 + y_z * 64 + (w % 64), width |-> 4]

\* backward decode of the codepoint ending at the last byte
next_code_point_reverse(b) ==
    LET n == Len(b)
        w == At(b, n)
        z == At(b, n - 1)
        y == At(b, n - 2)
        x == At(b, n - 3)
    IN IF w < 128 THEN w
       ELSE IF ~utf8_is_cont_byte(z) THEN (z % 32) * 64 + (w % 64)
       ELSE IF ~utf8_is_cont_byte(y)
            THEN ((y % 16) * 64 + (z % 64)) * 64 + (w % 64)
       ELSE (((x % 8) * 64 + (y % 64)) * 64 + (z % 64)) * 64 + (w % 64)

\* str::char_indices: the pairs <<byte offset, codepoint>>, offsets 0-based
RECURSIVE char_indices_from(_, _)
char_indices_from(b, i) ==
    IF i > Len(b) THEN <<>>
    ELSE LET d == next_code_point(b, i)
         IN <<<<i - 1, d.ch>>>> \o char_indices_from(b, i + d.width)

char_indices(b) == char_indices_from(b, 1)

\* str::chars: the codepoints
chars(b) == LET ci == char_indices(b) IN [k \in 1..Len(ci) |-> ci[k][2]]

\* Iterator::nth over char_indices: <<>> is None, a one-element sequence is Some
nth(ci, n) == IF n + 1 <= Len(ci) THEN <<ci[n + 1]>> ELSE <<>>

\* str::from_utf8: Ok, or Err with valid_up_to
RECURSIVE run_utf8_validation(_, _)
run_utf8_validation(b, i) ==
    IF i > Len(b) THEN [ok |-> TRUE, valid_up_to |-> Len(b)]
    ELSE LET first == b[i]
             err == [ok |-> FALSE, valid_up_to |-> i - 1]
             b2 == At(b, i + 1)
             b3 == At(b, i + 2)
             b4 == At(b, i + 3)
             have(k) == i + k - 1 <= Len(b)
         IN IF first < 128 THEN run_utf8_validation(b, i + 1)
            ELSE IF first >= 194 /\ first <= 223
                 THEN IF have(2) /\ utf8_is_cont_byte(b2)
                      THEN run_utf8_validation(b, i + 2) ELSE err
            ELSE IF first >= 224 /\ first <= 239
                 THEN IF /\ have(3)
                         /\ \/ first = 224 /\ b2 >= 160 /\ b2 <= 191
                            \/ first >= 225 /\ first <= 236 /\ utf8_is_cont_byte(b2)
                            \/ first = 237 /\ b2 >= 128 /\ b2 <= 159
                            \/ first >= 238 /\ utf8_is_cont_byte(b2)
                         /\ utf8_is_cont_byte(b3)
                      THEN run_utf8_validation(b, i + 3) ELSE err
            ELSE IF first >= 240 /\ first <= 244
                 THEN IF /\ have(4)
                         /\ \/ first = 240 /\ b2 >= 144 /\ b2 <= 191
                            \/ first >= 241 /\ first <= 243 /\ utf8_is_cont_byte(b2)
                            \/ first = 244 /\ b2 >= 128 /\ b2 <= 143
                         /\ utf8_is_cont_byte(b3)
                         /\ utf8_is_cont_byte(b4)
                      THEN run_utf8_validation(b, i + 4) ELSE err
            ELSE err

from_utf8(b) == run_utf8_validation(b, 1)

(***************************************************************************)
(* Vec<u8, A> primitives used by the crate.                                *)
(***************************************************************************)
Max(a, b) == IF a >= b THEN a ELSE b

\* Vec::reserve: amortized growth, doubling with a minimum of 8 bytes
vec_reserve(len, c, additional) ==
    IF c - len >= additional THEN c ELSE Max(Max(2 * c, len + additional), 8)

\* Vec::reserve_exact
vec_reserve_exact(len, c, additional) ==
    IF c - len >= additional THEN c ELSE len + additional

\* Vec::shrink_to_fit
vec_shrink_to_fit(len, c) == IF c > len THEN len ELSE c

\* Vec::truncate
vec_truncate(b, len) == IF len >= Len(b) THEN b ELSE SubSeq(b, 1, len)

\* Vec::drain(start..end), the drained bytes dropped
vec_drain(b, start, end) == SubSeq(b, 1, start) \o SubSeq(b, end + 1, Len(b))

\* Vec::splice(start..end, bytes)
vec_splice(b, start, end, bytes) ==
    SubSeq(b, 1, start) \o bytes \o SubSeq(b, end + 1, Len(b))

(***************************************************************************)
(* String<A>: the operations, as functions of self = [vec, cap].           *)
(* Each yields the outcome (res), the String afterwards (vec, cap), the    *)
(* value returned (out: a codepoint or NoChar; ret, retcap: the String     *)
(* returned by split_off), the `len` printed by a panic message (bound)    *)
(* and, for retain, the codepoints the predicate was called with (calls).  *)
(***************************************************************************)
Outcome(self) ==
    [res |-> "ok", vec |-> self.vec, cap |-> self.cap, out |-> NoChar,
     ret |-> <<>>, retcap |-> 0, bound |-> -1, calls |-> <<>>]

Panic(self, len) == [Outcome(self) EXCEPT !.res = "panic", !.bound = len]

new_in == [vec |-> <<>>, cap |-> 0]

with_capacity_in(c) == [vec |-> <<>>, cap |-> c]

from_str_in(s) == [vec |-> s, cap |-> Len(s)]

push_str(self, s) ==
    [Outcome(self) EXCEPT !.vec = self.vec \o s,
                          !.cap = vec_reserve(Len(self.vec), self.cap, Len(s))]

\* push appending the codepoint cast to one byte
push_as_u8(self, ch) == push_str(self, <<ch % 256>>)

push(self, ch) == push_str(self, encode_utf8(ch))

\* pop dropping one byte, whatever the width of the last codepoint
pop_one_byte(self) ==
    LET s == self.vec
    IN IF Len(s) = 0 THEN Outcome(self)
       ELSE LET ch == next_code_point_reverse(s)
                new_len == Len(s) - 1
            IN [Outcome(self) EXCEPT !.vec = vec_truncate(s, new_len), !.out = ch]

pop(self) ==
    LET s == self.vec
    IN IF Len(s) = 0 THEN Outcome(self)
       ELSE LET ch == next_code_point_reverse(s)
                new_len == Len(s) - len_utf8(ch)
            IN [Outcome(self) EXCEPT !.vec = vec_truncate(s, new_len), !.out = ch]

\* insert reserving room for the encoded bytes before it looks the index up
insert_reserving_first(self, idx, ch) ==
    LET bytes == encode_utf8(ch)
        s == self.vec
        grown == vec_reserve(Len(s), self.cap, Len(bytes))
        found == nth(char_indices(s), idx)
    IN IF found = <<>> THEN [Panic(self, Len(s)) EXCEPT !.cap = grown]
       ELSE LET byte_idx == found[1][1]
            IN [Outcome(self) EXCEPT
                   !.vec = vec_splice(s, byte_idx, byte_idx, bytes),
                   !.cap = grown]

insert(self, idx, ch) ==
    LET bytes == encode_utf8(ch)
        s == self.vec
        found == nth(char_indices(s), idx)
    IN IF found = <<>> THEN Panic(self, Len(s))
       ELSE LET byte_idx == found[1][1]
            IN [Outcome(self) EXCEPT
                   !.vec = vec_splice(s, byte_idx, byte_idx, bytes),
                   !.cap = vec_reserve(Len(s), self.cap, Len(bytes))]

remove(self, idx) ==
    LET s == self.vec
        found == nth(char_indices(s), idx)
    IN IF found = <<>> THEN Panic(self, Len(chars(s)))
       ELSE LET start == found[1][1]
                ch == found[1][2]
                end == start + len_utf8(ch)
            IN [Outcome(self) EXCEPT !.vec = vec_drain(s, start, end), !.out = ch]

split_off(self, at) ==
    LET s == self.vec
        found == nth(char_indices(s), at)
    IN IF found = <<>> THEN Panic(self, Len(chars(s)))
       ELSE LET byte_idx == found[1][1]
            IN [Outcome(self) EXCEPT
                   !.vec = SubSeq(s, 1, byte_idx),
                   !.ret = SubSeq(s, byte_idx + 1, Len(s)),
                   !.retcap = Len(s) - byte_idx]

\* the loop of retain: i and len are byte offsets, keep is the set of
\* codepoints the predicate accepts
\* the loop advancing i after a removal too
RECURSIVE retain_loop_skipping(_, _, _, _, _)
retain_loop_skipping(v, i, len, keep, calls) ==
    IF ~(i < len) THEN [vec |-> v, calls |-> calls]
    ELSE IF i >= Len(v) THEN [vec |-> v, calls |-> calls]
    ELSE LET ch == next_code_point(v, i + 1).ch
             ch_len == len_utf8(ch)
         IN IF ch \notin keep
            THEN retain_loop_skipping(vec_drain(v, i, i + ch_len), i + ch_len,
                                      len - ch_len, keep, Append(calls, ch))
            ELSE retain_loop_skipping(v, i + ch_len, len, keep, Append(calls, ch))

RECURSIVE retain_loop(_, _, _, _, _)
retain_loop(v, i, len, keep, calls) ==
    IF ~(i < len) THEN [vec |-> v, calls |-> calls]
    ELSE IF i >= Len(v) THEN [vec |-> v, calls |-> calls]
    ELSE LET ch == next_code_point(v, i + 1).ch
             ch_len == len_utf8(ch)
         IN IF ch \notin keep
            THEN retain_loop(vec_drain(v, i, i + ch_len), i, len - ch_len, keep,
                             Append(calls, ch))
            ELSE retain_loop(v, i + ch_len, len, keep, Append(calls, ch))

retain(self, keep) ==
    LET r == retain_loop(self.vec, 0, Len(self.vec), keep, <<>>)
    IN [Outcome(self) EXCEPT !.vec = r.vec, !.calls = r.calls]

\* reserve measuring `additional` from 0 instead of from the length
reserve_from_zero(self, additional) ==
    [Outcome(self) EXCEPT !.cap = vec_reserve(0, self.cap, additional)]

reserve(self, additional) ==
    [Outcome(self) EXCEPT !.cap = vec_reserve(Len(self.vec), self.cap, additional)]

reserve_exact(self, additional) ==
    [Outcome(self) EXCEPT !.cap = vec_reserve_exact(Len(self.vec), self.cap, additional)]

shrink_to_fit(self) ==
    [Outcome(self) EXCEPT !.cap = vec_shrink_to_fit(Len(self.vec), self.cap)]

clear(self) == [Outcome(self) EXCEPT !.vec = <<>>]

\* truncate taking new_len as a byte length
truncate_at_byte(self, new_len) ==
    LET s == self.vec
        current_len == Len(chars(s))
    IN IF new_len > current_len THEN Panic(self, current_len)
       ELSE [Outcome(self) EXCEPT !.vec = vec_truncate(s, new_len)]

\* truncate giving the dropped bytes back, the capacity cut to the new length
truncate_shrinking(self, new_len) ==
    LET s == self.vec
        current_len == Len(chars(s))
    IN IF new_len > current_len THEN Panic(self, current_len)
       ELSE LET found == nth(char_indices(s), new_len)
                byte_idx == IF found = <<>> THEN Len(s) ELSE found[1][1]
            IN [Outcome(self) EXCEPT !.vec = vec_truncate(s, byte_idx),
                                     !.cap = byte_idx]

truncate(self, new_len) ==
    LET s == self.vec
        current_len == Len(chars(s))
    IN IF new_len > current_len THEN Panic(self, current_len)
       ELSE LET found == nth(char_indices(s), new_len)
                byte_idx == IF found = <<>> THEN Len(s) ELSE found[1][1]
            IN [Outcome(self) EXCEPT !.vec = vec_truncate(s, byte_idx)]

\* from_utf8_in keeping the vector without validating it
from_utf8_in_trusting(v) == Outcome([vec |-> v, cap |-> Len(v)])

\* from_utf8_in: the vector is kept on Ok; on Err no String exists and the
\* error carries valid_up_to
from_utf8_in(v) ==
    LET r == from_utf8(v)
    IN IF r.ok THEN [Outcome([vec |-> v, cap |-> Len(v)]) EXCEPT !.res = "ok"]
       ELSE [Outcome([vec |-> <<>>, cap |-> 0]) EXCEPT
                !.res = "err", !.bound = r.valid_up_to]

\* unsafe from_utf8_unchecked_in
from_utf8_unchecked_in(v) == Outcome([vec |-> v, cap |-> Len(v)])

\* impl From<Vec<u8, A>> for String<A>
from_vec(v) == Outcome([vec |-> v, cap |-> Len(v)])

(***************************************************************************)
(* State.  vec, cap: the String under observation.  input: a raw byte      *)
(* vector not yet converted.  last: the call that has just returned, its   *)
(* arguments and what it returned; op = "none" once the caller has taken   *)
(* the result and is about to make its next call.                          *)
(***************************************************************************)
Self == [vec |-> vec, cap |-> cap]

\* texts: the UTF-8 encodings of the codepoint sequences over Alphabet
RECURSIVE encode_str(_)
encode_str(cs) == IF cs = <<>> THEN <<>> ELSE encode_utf8(Head(cs)) \o encode_str(Tail(cs))

Texts(n) == {encode_str(cs) : cs \in SeqsUpTo(Alphabet, n)}

\* the inputs of from_str_in, of push_str and of the byte-vector constructors
StrInputs == Texts(MaxChars)

PushInputs == Texts(MaxPush)

ByteVecs == SeqsUpTo(ByteAlphabet, MaxBytes)

Call(op, r) ==
    [op |-> op, res |-> r.res, idx |-> 0,
     ch |-> NoChar, text |-> <<>>, keep |-> {}, out |-> r.out, ret |-> r.ret,
     retcap |-> r.retcap, bound |-> r.bound, calls |-> r.calls]

\* the model's bound on the content an operation may produce
Fits(r) == Len(chars(r.vec)) <= MaxChars

\* the caller is between two calls
Ready == last.op = "none"

\* the String as left by new_in, with_capacity_in or from_str_in
Init ==
    /\ input = <<>>
    /\ \/ /\ vec = new_in.vec
          /\ cap = new_in.cap
          /\ last = Call("new_in", Outcome(new_in))
       \/ \E c \in 0..MaxAdditional :
              /\ vec = with_capacity_in(c).vec
              /\ cap = with_capacity_in(c).cap
              /\ last = [Call("with_capacity_in", Outcome(with_capacity_in(c)))
                           EXCEPT !.idx = c]
       \/ \E t \in StrInputs :
              /\ vec = from_str_in(t).vec
              /\ cap = from_str_in(t).cap
              /\ last = [Call("from_str_in", Outcome(from_str_in(t)))
                           EXCEPT !.text = t]

PushStr ==
    /\ Ready
    /\ \E t \in PushInputs :
        \E r \in {push_str(Self, t)} :
           /\ Fits(r)
           /\ vec' = r.vec
           /\ cap' = r.cap
           /\ last' = [Call("push_str", r) EXCEPT !.text = t]
           /\ UNCHANGED input

Push ==
    /\ Ready
    /\ \E c \in Alphabet :
        \E r \in {push(Self, c)} :
           /\ Fits(r)
           /\ vec' = r.vec
           /\ cap' = r.cap
           /\ last' = [Call("push", r) EXCEPT !.ch = c]
           /\ UNCHANGED input

Pop ==
    /\ Ready
    /\ \E r \in {pop(Self)} :
       /\ vec' = r.vec
       /\ cap' = r.cap
       /\ last' = Call("pop", r)
       /\ UNCHANGED input

Insert ==
    /\ Ready
    /\ \E i \in 0..(MaxChars + 1), c \in Alphabet :
        \E r \in {insert(Self, i, c)} :
           /\ Fits(r)
           /\ vec' = r.vec
           /\ cap' = r.cap
           /\ last' = [Call("insert", r) EXCEPT !.idx = i, !.ch = c]
           /\ UNCHANGED input

Remove ==
    /\ Ready
    /\ \E i \in 0..(MaxChars + 1) :
        \E r \in {remove(Self, i)} :
           /\ vec' = r.vec
           /\ cap' = r.cap
           /\ last' = [Call("remove", r) EXCEPT !.idx = i]
           /\ UNCHANGED input

SplitOff ==
    /\ Ready
    /\ \E at \in 0..(MaxChars + 1) :
        \E r \in {split_off(Self, at)} :
           /\ vec' = r.vec
           /\ cap' = r.cap
           /\ last' = [Call("split_off", r) EXCEPT !.idx = at]
           /\ UNCHANGED input

Retain ==
    /\ Ready
    /\ \E keep \in SUBSET Alphabet :
        \E r \in {retain(Self, keep)} :
           /\ vec' = r.vec
           /\ cap' = r.cap
           /\ last' = [Call("retain", r) EXCEPT !.keep = keep]
           /\ UNCHANGED input

Reserve ==
    /\ Ready
    /\ \E n \in 0..MaxAdditional :
        \E r \in {reserve(Self, n)} :
           /\ vec' = r.vec
           /\ cap' = r.cap
           /\ last' = [Call("reserve", r) EXCEPT !.idx = n]
           /\ UNCHANGED input

ReserveExact ==
    /\ Ready
    /\ \E n \in 0..MaxAdditional :
        \E r \in {reserve_exact(Self, n)} :
           /\ vec' = r.vec
           /\ cap' = r.cap
           /\ last' = [Call("reserve_exact", r) EXCEPT !.idx = n]
           /\ UNCHANGED input

ShrinkToFit ==
    /\ Ready
    /\ \E r \in {shrink_to_fit(Self)} :
       /\ vec' = r.vec
       /\ cap' = r.cap
       /\ last' = Call("shrink_to_fit", r)
       /\ UNCHANGED input

Clear ==
    /\ Ready
    /\ \E r \in {clear(Self)} :
       /\ vec' = r.vec
       /\ cap' = r.cap
       /\ last' = Call("clear", r)
       /\ UNCHANGED input

Truncate ==
    /\ Ready
    /\ \E n \in 0..(MaxChars + 1) :
        \E r \in {truncate(Self, n)} :
           /\ vec' = r.vec
           /\ cap' = r.cap
           /\ last' = [Call("truncate", r) EXCEPT !.idx = n]
           /\ UNCHANGED input

\* the call has returned: the caller takes the result (a String returned by
\* split_off is dropped) and goes on to its next call
Return ==
    /\ ~Ready
    /\ last' = Call("none", Outcome(Self))
    /\ UNCHANGED <<vec, cap, input>>

Next ==
    \/ Return
    \/ PushStr
    \/ Push
    \/ Pop
    \/ Insert
    \/ Remove
    \/ SplitOff
    \/ Retain
    \/ Reserve
    \/ ReserveExact
    \/ ShrinkToFit
    \/ Clear
    \/ Truncate

Spec == Init /\ [][Next]_vars

(***************************************************************************)
(* Construction from a raw byte vector: the vector is drawn first, then    *)
(* one of the three conversions consumes it.                               *)
(***************************************************************************)
NoString == [vec |-> <<>>, cap |-> 0]

InitBytes ==
    /\ input \in ByteVecs
    /\ vec = <<>>
    /\ cap = 0
    /\ last = Call("input", Outcome(NoString))

FromUtf8In ==
    /\ last.op = "input"
    /\ \E r \in {from_utf8_in(input)} :
          /\ vec' = r.vec
          /\ cap' = r.cap
          /\ last' = [Call("from_utf8_in", r) EXCEPT !.text = input]
    /\ UNCHANGED input

FromUtf8UncheckedIn ==
    /\ last.op = "input"
    /\ \E r \in {from_utf8_unchecked_in(input)} :
          /\ vec' = r.vec
          /\ cap' = r.cap
          /\ last' = [Call("from_utf8_unchecked_in", r) EXCEPT !.text = input]
    /\ UNCHANGED input

FromVec ==
    /\ last.op = "input"
    /\ \E r \in {from_vec(input)} :
          /\ vec' = r.vec
          /\ cap' = r.cap
          /\ last' = [Call("from", r) EXCEPT !.text = input]
    /\ UNCHANGED input

NextBytes ==
    \/ FromUtf8In
    \/ FromUtf8UncheckedIn
    \/ FromVec

SpecBytes == InitBytes /\ [][NextBytes]_vars

(***************************************************************************)
(* Well-formed UTF-8, stated from the encoding: a byte sequence is         *)
(* well-formed when it is a concatenation of encodings of Unicode scalar   *)
(* values.                                                                 *)
(***************************************************************************)
IsScalar(c) == (c >= 0 /\ c <= 55295) \/ (c >= 57344 /\ c <= 1114111)

\* the payload bits of a 1 to 4 byte sequence read as lead and continuation bytes
Payload(t) ==
    IF Len(t) = 1 THEN t[1]
    ELSE IF Len(t) = 2 THEN (t[1] - 192) * 64 + (t[2] - 128)
    ELSE IF Len(t) = 3 THEN (t[1] - 224) * 4096 + (t[2] - 128) * 64 + (t[3] - 128)
    ELSE (t[1] - 240) * 262144 + (t[2] - 128) * 4096 + (t[3] - 128) * 64 + (t[4] - 128)

IsEncodedScalar(t) == IsScalar(Payload(t)) /\ encode_utf8(Payload(t)) = t

RECURSIVE Utf8WellFormed(_)
Utf8WellFormed(b) ==
    \/ b = <<>>
    \/ \E k \in 1..(IF Len(b) < 4 THEN Len(b) ELSE 4) :
          /\ IsEncodedScalar(SubSeq(b, 1, k))
          /\ Utf8WellFormed(SubSeq(b, k + 1, Len(b)))

\* the content of a String: its codepoints
Content(b) == chars(b)

MutatingOps ==
    {"push_str", "push", "pop", "insert", "remove", "split_off", "retain",
     "truncate", "clear", "reserve", "reserve_exact", "shrink_to_fit"}

\* C1: from a String built by new_in, with_capacity_in or from_str_in, after
\* any sequence of the mutating operations the bytes [0, len) of the String,
\* and of the String returned by split_off, are well-formed UTF-8.
C1_AlwaysUtf8 ==
    /\ Utf8WellFormed(vec)
    /\ Utf8WellFormed(last.ret)

\* a split between a 3-byte and a 4-byte codepoint has happened
C1_Witness ==
    /\ last.op = "split_off"
    /\ last.res = "ok"
    /\ vec = encode_utf8(20013)
    /\ last.ret = encode_utf8(129408)

\* C2: every safe conversion of a raw byte vector (from_utf8_in, From<Vec<u8, A>>)
\* yields a String only when the bytes are well-formed UTF-8.
C2_SafePathsValidate ==
    (last.op \in {"from_utf8_in", "from"} /\ last.res = "ok") => Utf8WellFormed(vec)

\* C3: insert(i, c) with 0 <= i <= n returns normally and leaves the first i
\* codepoints, then c, then the remaining n - i codepoints; i = n appends.
C3_InsertUpToEnd ==
    [][last'.op = "insert" /\ last'.idx <= Len(Content(vec))
         => /\ last'.res = "ok"
            /\ Content(vec') = SubSeq(Content(vec), 1, last'.idx)
                                 \o <<last'.ch>>
                                 \o SubSeq(Content(vec), last'.idx + 1, Len(Content(vec)))]_vars

\* C4: split_off(k) with 0 <= k <= n returns normally, self keeps the first k
\* codepoints, the returned String holds the remaining n - k, and the two
\* concatenated are the original content.
C4_SplitOffUpToEnd ==
    [][last'.op = "split_off" /\ last'.idx <= Len(Content(vec))
         => /\ last'.res = "ok"
            /\ Content(vec') = SubSeq(Content(vec), 1, last'.idx)
            /\ Content(last'.ret) = SubSeq(Content(vec), last'.idx + 1, Len(Content(vec)))
            /\ vec' \o last'.ret = vec]_vars

\* C5: for every index i with 0 <= i <= n and every codepoint c, insert(i, c)
\* followed by remove(i) returns c and leaves content and byte length as before.
C5_InsertThenRemove ==
    \A i \in 0..Len(Content(vec)), c \in Alphabet :
        LET a == insert(Self, i, c)
            b == remove([vec |-> a.vec, cap |-> a.cap], i)
        IN /\ a.res = "ok"
           /\ b.res = "ok"
           /\ b.out = c
           /\ b.vec = vec
           /\ Len(b.vec) = Len(vec)

\* the length of the longest well-formed prefix
LongestValidPrefix(b) ==
    CHOOSE k \in 0..Len(b) :
        /\ Utf8WellFormed(SubSeq(b, 1, k))
        /\ \A j \in (k + 1)..Len(b) : ~Utf8WellFormed(SubSeq(b, 1, j))

\* C6: from_utf8_in(bytes) is Ok with exactly those bytes if and only if bytes
\* is well-formed UTF-8; otherwise it is an error whose offset is the length
\* of the longest well-formed prefix.
C6_FromUtf8In ==
    last.op = "from_utf8_in"
        => /\ last.res \in {"ok", "err"}
           /\ (last.res = "ok") <=> Utf8WellFormed(input)
           /\ last.res = "ok" => vec = input
           /\ last.res = "err" => last.bound = LongestValidPrefix(input)

\* the scenario [0x68, 0x69, 0xFF]: error at offset 2
C6_Witness ==
    /\ last.op = "from_utf8_in"
    /\ input = <<104, 105, 255>>
    /\ last.res = "err"
    /\ last.bound = 2

\* C7: with n the character count, insert(i, c) panics exactly when i > n,
\* remove(i) exactly when i >= n, truncate(m) exactly when m > n, split_off(k)
\* exactly when k > n, and the panic reports n as the bound.
C7_ContractViolations ==
    [][LET n == Len(Content(vec))
           i == last'.idx
           panicked == last'.res = "panic"
       IN /\ last'.op = "insert" => (panicked <=> i > n)
          /\ last'.op = "remove" => (panicked <=> i >= n)
          /\ last'.op = "truncate" => (panicked <=> i > n)
          /\ last'.op = "split_off" => (panicked <=> i > n)
          /\ (last'.op \in {"insert", "remove", "truncate", "split_off"} /\ panicked)
                => last'.bound = n]_vars

RECURSIVE SumWidths(_)
SumWidths(cs) == IF cs = <<>> THEN 0 ELSE len_utf8(Head(cs)) + SumWidths(Tail(cs))

RECURSIVE Filter(_, _)
Filter(cs, keep) ==
    IF cs = <<>> THEN <<>>
    ELSE IF Head(cs) \in keep THEN <<Head(cs)>> \o Filter(Tail(cs), keep)
    ELSE Filter(Tail(cs), keep)

\* C8: retain(p) leaves the codepoints for which p is true, in their order,
\* the byte length being the sum of their encoded lengths, and p is called
\* once on each codepoint of the content, left to right.
C8_Retain ==
    [][last'.op = "retain"
         => /\ Content(vec') = Filter(Content(vec), last'.keep)
            /\ vec' = encode_str(Filter(Content(vec), last'.keep))
            /\ Len(vec') = SumWidths(Filter(Content(vec), last'.keep))
            /\ last'.calls = Content(vec)]_vars

\* of U+00E9 and U+1F980 the first was dropped and the second kept
C8_Witness ==
    /\ last.op = "retain"
    /\ last.calls = <<233, 129408>>
    /\ last.keep = {129408}
    /\ vec = encode_utf8(129408)

RECURSIVE PushAll(_, _)
PushAll(self, cs) ==
    IF cs = <<>> THEN self
    ELSE LET r == push(self, Head(cs))
         IN PushAll([vec |-> r.vec, cap |-> r.cap], Tail(cs))

\* k calls of pop: the String left and the codepoints returned, in call order
RECURSIVE PopTimes(_, _)
PopTimes(self, k) ==
    IF k = 0 THEN [vec |-> self.vec, outs |-> <<>>]
    ELSE LET r == pop(self)
             rest == PopTimes([vec |-> r.vec, cap |-> r.cap], k - 1)
         IN [vec |-> rest.vec, outs |-> <<r.out>> \o rest.outs]

Reverse(cs) == [k \in 1..Len(cs) |-> cs[Len(cs) + 1 - k]]

\* the codepoint sequences pushed
PushedSeqs == SeqsUpTo(Alphabet, MaxPush)

\* pushing c1..ck and popping k times returns ck..c1 and restores the content
\* (from every String the caller can hold between two calls)
C9_PushThenPop ==
    Ready => \A cs \in PushedSeqs :
                 LET r == PopTimes(PushAll(Self, cs), Len(cs))
                 IN r.outs = Reverse(cs) /\ r.vec = vec

\* C9: pop on a non-empty String returns the last codepoint and shortens the
\* bytes by its encoded length, the earlier codepoints unchanged; on an empty
\* String it returns None and leaves it empty; pushes followed by as many pops
\* return the codepoints in reverse and restore the content.
C9_Pop ==
    /\ []C9_PushThenPop
    /\ [][last'.op = "pop"
            => IF vec = <<>>
               THEN last'.out = NoChar /\ vec' = <<>>
               ELSE /\ Content(vec) = Append(Content(vec'), last'.out)
                    /\ Len(vec') = Len(vec) - len_utf8(last'.out)
                    /\ vec' = SubSeq(vec, 1, Len(vec'))]_vars

\* the 4-byte U+1F980 was popped from behind the 2-byte U+00E9
C9_Witness ==
    /\ last.op = "pop"
    /\ last.out = 129408
    /\ vec = encode_utf8(233)

\* C10: push_str(x) adds exactly the bytes of x, push(c) the 1 to 4 bytes of
\* the encoding of c; in every state the byte length is the sum of the encoded
\* lengths of the codepoints held and at least their number.
C10_PushLengths ==
    /\ [](/\ Len(vec) = SumWidths(Content(vec))
          /\ Len(vec) >= Len(Content(vec)))
    /\ [][/\ last'.op = "push_str"
               => /\ Len(vec') = Len(vec) + Len(last'.text)
                  /\ vec' = vec \o last'.text
                  /\ Content(vec') = Content(vec) \o Content(last'.text)
          /\ last'.op = "push"
               => /\ Len(vec') = Len(vec) + len_utf8(last'.ch)
                  /\ len_utf8(last'.ch) \in 1..4
                  /\ vec' = vec \o encode_utf8(last'.ch)
                  /\ Content(vec') = Append(Content(vec), last'.ch)]_vars

\* U+1F980 was pushed behind U+00E9: 2 + 4 bytes, 2 codepoints
C10_Witness ==
    /\ last.op = "push"
    /\ last.ch = 129408
    /\ vec = encode_utf8(233) \o encode_utf8(129408)
    /\ Len(vec) = 6

\* C11: len <= capacity in every state (also of the String returned by
\* split_off); reserve(n) never decreases the capacity and leaves capacity >=
\* len + n; shrink_to_fit neither leaves the capacity below the length nor
\* increases it; with_capacity_in(n) yields an empty String of capacity >= n;
\* reserve, reserve_exact and shrink_to_fit change neither content nor length.
C11_Capacity ==
    /\ [](/\ Len(vec) <= cap
          /\ Len(last.ret) <= last.retcap
          /\ last.op = "with_capacity_in" => (vec = <<>> /\ cap >= last.idx))
    /\ [][/\ last'.op = "reserve"
               => /\ cap' >= cap
                  /\ cap' >= Len(vec') + last'.idx
          /\ last'.op = "shrink_to_fit"
               => /\ cap' >= Len(vec')
                  /\ cap' <= cap
          /\ last'.op \in {"reserve", "reserve_exact", "shrink_to_fit"}
               => /\ last'.res = "ok"
                  /\ vec' = vec
                  /\ Len(vec') = Len(vec)]_vars

\* reserve(1) on the full 7-byte String of U+4E2D U+1F980 doubled the capacity
C11_Witness ==
    /\ last.op = "reserve"
    /\ last.idx = 1
    /\ vec = encode_utf8(20013) \o encode_utf8(129408)
    /\ cap = 14

\* C12: truncate(m) with 0 <= m <= n leaves the first m codepoints of the
\* content (no codepoint is cut; truncate(n) changes nothing, truncate(0)
\* empties the String) and does not change the capacity.
C12_Truncate ==
    [][last'.op = "truncate" /\ last'.idx <= Len(Content(vec))
         => /\ last'.res = "ok"
            /\ Content(vec') = SubSeq(Content(vec), 1, last'.idx)
            /\ vec' = encode_str(SubSeq(Content(vec), 1, last'.idx))
            /\ last'.idx = Len(Content(vec)) => vec' = vec
            /\ last'.idx = 0 => vec' = <<>>
            /\ cap' = cap]_vars

\* truncate(1) cut the 4-byte U+1F980 off U+4E2D U+1F980, the capacity still 7
C12_Witness ==
    /\ last.op = "truncate"
    /\ last.res = "ok"
    /\ last.idx = 1
    /\ vec = encode_utf8(20013)
    /\ cap = 7

\* C13: after reserve_exact(k) the capacity is exactly len + k, whatever the
\* capacity was before the call.
C13_ReserveExactIsExact ==
    [][last'.op = "reserve_exact" => cap' = Len(vec') + last'.idx]_vars

\* C14: when insert, remove, truncate or split_off panics on its index, the
\* content, the byte length and the capacity are as before the call (the
\* content still well-formed UTF-8) and no String is returned.
C14_PanicChangesNothing ==
    [][(last'.op \in {"insert", "remove", "truncate", "split_off"}
          /\ last'.res = "panic")
         => /\ vec' = vec
            /\ Len(vec') = Len(vec)
            /\ cap' = cap
            /\ Utf8WellFormed(vec')
            /\ last'.ret = <<>>
            /\ last'.retcap = 0
            /\ last'.out = NoChar]_vars

\* remove(2) panicked on the 2 codepoints (6 bytes) of U+00E9 U+1F980
C14_Witness ==
    /\ last.op = "remove"
    /\ last.res = "panic"
    /\ last.idx = 2
    /\ vec = encode_utf8(233) \o encode_utf8(129408)

====
